---- MODULE Spec2Model ----
(***************************************************************************)
(* Model of the identity system:                                           *)
(*   - the WebAuthn ceremony routes (routes/auth, src/unnamed/part_001     *)
(*     lines 472-886) with the verification helpers of                     *)
(*     src/webauthn/webauthn-utils.js;                                     *)
(*   - the IdentityManager contract (src/contracts/IdentityManager.sol).   *)
(* The two halves share no state: Spec runs the ceremony routes,           *)
(* RegistrySpec runs the contract.                                         *)
(***************************************************************************)
EXTENDS Integers, Sequences, FiniteSets, TLC

VARIABLES
    now,          \* Date.now(), in milliseconds since the process started
    challenges,   \* the Map `challenges`: challengeKey -> pending ceremony data
    credStore,    \* localStorage: email -> stored credential (webauthn_<email>)
    jwtSecret,    \* whether process.env.JWT_SECRET is set
    identities,   \* contract: mapping(address => Identity)
    emailExists,  \* contract: mapping(string => bool), as the set of true keys
    aadhaarExists,\* contract: mapping(string => bool), as the set of true keys
    registeredUsers, \* contract: address[]
    events,       \* contract: the emitted IdentityRegistered log
    blockTime     \* contract: block.timestamp

ceremonyVars == <<now, challenges, credStore, jwtSecret>>
registryVars == <<identities, emailExists, aadhaarExists, registeredUsers,
                  events, blockTime>>
vars == <<now, challenges, credStore, jwtSecret,
          identities, emailExists, aadhaarExists, registeredUsers,
          events, blockTime>>

-----------------------------------------------------------------------------
(* Bounds of the model *)

\* how many five-minute clock steps a behaviour takes
MaxLongSteps == 2
\* how many challenges are pending at once
MaxPending == 2
\* the largest signature counter a behaviour reaches
MaxCounter == 2
\* how far block.timestamp advances in a behaviour
MaxBlockTime == 1

-----------------------------------------------------------------------------
(* Program constants *)

\* 5 * 60 * 1000: the lifetime of a challenge, in milliseconds
ChallengeTTL == 300000
\* 5 * 60 * 1000: the period of setInterval(cleanupExpiredChallenges, ...)
SweepInterval == 300000
\* expiresIn: '24h', in seconds
TokenLifetime == 86400

\* this.origin of WebAuthnUtils
ExpectedOrigin == "http://localhost:3000"

-----------------------------------------------------------------------------
(* Inputs of the ceremony routes *)

\* An email is a string, kept as its sequence of characters so that the
\* format check can be computed.
EmailA == <<"a", "@", "x", ".", "c">>
Emails == {EmailA}
\* req.body.email: a well-formed address, none, one without a dot after the
\* "@", one with white space
EmailInputs ==
    Emails \cup {<<>>, <<"a", "@", "x">>, <<"a", " ", "@", "x", ".", "c">>}

Undefined == "undefined"
Names == {"Alice"}
NameInputs == Names \cup {""}

ChallengeBytes == {"ch1", "ch2"}
Origins == {ExpectedOrigin, "http://evil.example"}
CredIds == {"cred1", "cred2"}

\* req.body.credential.  present = FALSE is a missing (falsy) credential;
\* id = "" is a missing id; hasResponse = FALSE a missing response object;
\* jsonOk = FALSE a clientDataJSON that does not decode to JSON; challenge
\* and origin are the fields of the decoded clientDataJSON.  signCount is the
\* counter the authenticator asserts.
Credentials ==
    { [present |-> FALSE, id |-> "", hasResponse |-> FALSE, jsonOk |-> FALSE,
       challenge |-> "ch1", origin |-> ExpectedOrigin,
       attestationObject |-> "att1", signCount |-> 0] }
    \cup
    { [present |-> TRUE, id |-> i, hasResponse |-> FALSE, jsonOk |-> FALSE,
       challenge |-> "ch1", origin |-> ExpectedOrigin,
       attestationObject |-> "att1", signCount |-> 0] : i \in {"cred1", ""} }
    \cup
    { [present |-> TRUE, id |-> i, hasResponse |-> TRUE, jsonOk |-> j,
       challenge |-> "ch1", origin |-> ExpectedOrigin,
       attestationObject |-> "att1", signCount |-> 0] :
         i \in {"cred1", ""}, j \in BOOLEAN }
    \cup
    [present : {TRUE}, id : CredIds, hasResponse : {TRUE}, jsonOk : {TRUE},
     challenge : ChallengeBytes, origin : Origins,
     attestationObject : {"att1"}, signCount : {0}]
    \cup
    [present : {TRUE}, id : CredIds, hasResponse : {TRUE}, jsonOk : {TRUE},
     challenge : ChallengeBytes, origin : {ExpectedOrigin},
     attestationObject : {"att1"}, signCount : {7}]

\* The clock readings of a behaviour.
Times == { l * ChallengeTTL : l \in 0..MaxLongSteps }

\* `challenge_${email}_${Date.now()}` and `auth_challenge_${email}_${Date.now()}`:
\* the prefix, the email and the digits determine the string and are
\* determined by it.
RegKey(email, t) == [kind |-> "challenge", email |-> email, t |-> t]
AuthKey(email, t) == [kind |-> "auth_challenge", email |-> email, t |-> t]
\* a missing (falsy) challengeKey
NoKey == [kind |-> "", email |-> <<>>, t |-> 0]
\* a key the server never issued
ForgedKey == [kind |-> "challenge", email |-> EmailA, t |-> -1]
Keys == { RegKey(e, t) : e \in Emails, t \in Times }
        \cup { AuthKey(e, t) : e \in Emails, t \in Times }
\* req.body.challengeKey
KeyInputs == Keys \cup {NoKey, ForgedKey}

\* no token in the response
NoToken ==
    [email |-> <<>>, name |-> "", authenticatedAt |-> 0, authMethod |-> "",
     iat |-> 0, exp |-> 0, iss |-> "", aud |-> ""]

\* The Authorization header of a request.  present = FALSE is a request
\* without a bearer token; wellFormed = FALSE a token that is not a JWT;
\* validSignature tells whether the signature is the server's signature of
\* exactly this payload.
Bearer(payload, validSignature) ==
    [present |-> TRUE, wellFormed |-> TRUE, validSignature |-> validSignature,
     payload |-> payload]
NoBearer ==
    [present |-> FALSE, wellFormed |-> FALSE, validSignature |-> FALSE,
     payload |-> NoToken]
MalformedBearer ==
    [present |-> TRUE, wellFormed |-> FALSE, validSignature |-> FALSE,
     payload |-> NoToken]

-----------------------------------------------------------------------------
(* Helpers of the ceremony routes *)

IsSpace(c) == c \in {" ", "\t", "\n"}

\* /^[^\s@]+@[^\s@]+\.[^\s@]+$/.test(email): three non-empty runs without
\* white space or "@", the first two separated by "@", the last two by ".".
EmailRegexTest(s) ==
    /\ \A i \in 1..Len(s) : ~IsSpace(s[i])
    /\ \E i \in 2..Len(s) :
          /\ s[i] = "@"
          /\ \A k \in 1..Len(s) : s[k] = "@" => k = i
          /\ \E j \in (i + 2)..(Len(s) - 1) : s[j] = "."

\* map.set(key, value) on a Map, localStorage.setItem(key, value)
MapSet(m, k, v) == [x \in DOMAIN m \cup {k} |-> IF x = k THEN v ELSE m[x]]
\* map.delete(key)
MapDelete(m, k) == [x \in DOMAIN m \ {k} |-> m[x]]

\* a variant of IsExpired with a comparison that is not strict
IsExpiredAtExpiry(t, challengeData) == t >= challengeData.expires

\* a variant of IsExpired that allows a challenge one more lifetime
IsExpiredLate(t, challengeData) == t > challengeData.expires + ChallengeTTL

\* Date.now() > challengeData.expires (and now > data.expires in the sweep)
IsExpired(t, challengeData) == t > challengeData.expires

\* a variant of VerifyRegistrationCredential that does not compare the origin
VerifyRegistrationCredentialAnyOrigin(credential, expectedChallenge) ==
    LET fail(msg) == [verified |-> FALSE, error |-> msg, credentialId |-> "",
                      publicKey |-> "", counter |-> 0]
    IN  IF ~credential.present \/ credential.id = "" \/ ~credential.hasResponse
        THEN fail("Invalid credential format")
        ELSE IF ~credential.jsonOk
        THEN fail("Unexpected token in JSON")
        ELSE IF credential.challenge # expectedChallenge
        THEN fail("Challenge mismatch")
        ELSE [verified |-> TRUE, error |-> "", credentialId |-> credential.id,
              publicKey |-> credential.attestationObject, counter |-> 0]

\* verifyRegistrationCredential(credential, expectedChallenge)
VerifyRegistrationCredential(credential, expectedChallenge) ==
    LET fail(msg) == [verified |-> FALSE, error |-> msg, credentialId |-> "",
                      publicKey |-> "", counter |-> 0]
    IN  IF ~credential.present \/ credential.id = "" \/ ~credential.hasResponse
        THEN fail("Invalid credential format")
        ELSE IF ~credential.jsonOk
        THEN fail("Unexpected token in JSON")
        ELSE IF credential.challenge # expectedChallenge
        THEN fail("Challenge mismatch")
        ELSE IF credential.origin # ExpectedOrigin
        THEN fail("Origin mismatch")
        ELSE [verified |-> TRUE, error |-> "", credentialId |-> credential.id,
              publicKey |-> credential.attestationObject, counter |-> 0]

\* a variant of VerifyAuthenticationCredential that does not compare the
\* credential id
VerifyAuthenticationAnyId(credential, expectedChallenge, storedCredential) ==
    LET fail(msg) == [verified |-> FALSE, error |-> msg, counter |-> 0]
    IN  IF ~credential.present \/ credential.id = "" \/ ~credential.hasResponse
        THEN fail("Invalid credential format")
        ELSE IF ~credential.jsonOk
        THEN fail("Unexpected token in JSON")
        ELSE IF credential.challenge # expectedChallenge
        THEN fail("Challenge mismatch")
        ELSE IF credential.origin # ExpectedOrigin
        THEN fail("Origin mismatch")
        ELSE [verified |-> TRUE, error |-> "",
              counter |-> storedCredential.counter + 1]

\* verifyAuthenticationCredential(credential, expectedChallenge, storedCredential)
VerifyAuthenticationCredential(credential, expectedChallenge, storedCredential) ==
    LET fail(msg) == [verified |-> FALSE, error |-> msg, counter |-> 0]
    IN  IF ~credential.present \/ credential.id = "" \/ ~credential.hasResponse
        THEN fail("Invalid credential format")
        ELSE IF credential.id # storedCredential.credentialId
        THEN fail("Credential ID mismatch")
        ELSE IF ~credential.jsonOk
        THEN fail("Unexpected token in JSON")
        ELSE IF credential.challenge # expectedChallenge
        THEN fail("Challenge mismatch")
        ELSE IF credential.origin # ExpectedOrigin
        THEN fail("Origin mismatch")
        ELSE [verified |-> TRUE, error |-> "",
              counter |-> storedCredential.counter + 1]

\* a variant of CredentialData that loses the owner's name
CredentialDataNoName(verification, challengeData, t) ==
    [credentialId |-> verification.credentialId,
     publicKey |-> verification.publicKey,
     counter |-> verification.counter,
     email |-> challengeData.email,
     name |-> Undefined,
     registeredAt |-> t]

\* the credentialData that /register/complete stores.  JSON.stringify drops a
\* name that is undefined and JSON.parse reads it back as undefined.
CredentialData(verification, challengeData, t) ==
    [credentialId |-> verification.credentialId,
     publicKey |-> verification.publicKey,
     counter |-> verification.counter,
     email |-> challengeData.email,
     name |-> challengeData.name,
     registeredAt |-> t]

\* a variant of JwtSign whose payload has no name
JwtSignNoName(email, name, t) ==
    [email |-> email, name |-> "", authenticatedAt |-> t,
     authMethod |-> "webauthn", iat |-> t \div 1000,
     exp |-> (t \div 1000) + TokenLifetime,
     iss |-> "decentralized-identity-system", aud |-> "user"]

\* jwt.sign(tokenPayload, secret, {expiresIn: '24h', issuer, audience})
JwtSign(email, name, t) ==
    [email |-> email, name |-> name, authenticatedAt |-> t,
     authMethod |-> "webauthn", iat |-> t \div 1000,
     exp |-> (t \div 1000) + TokenLifetime,
     iss |-> "decentralized-identity-system", aud |-> "user"]

-----------------------------------------------------------------------------
(* The ceremony routes.  A handler runs to completion without yielding (it
   awaits nothing), within one reading of the clock.  Each is a function of
   the server state s = [now, challenges, credStore, jwtSecret] and of the
   request body, to the response (result: "ok" or the error text, the
   challengeKey and the token it carries) and the challenges and credentials
   it leaves. *)

\* the server state
Server ==
    [now |-> now, challenges |-> challenges, credStore |-> credStore,
     jwtSecret |-> jwtSecret]

\* a response that changes nothing
Reject(s, msg) ==
    [result |-> msg, challengeKey |-> NoKey, token |-> NoToken,
     challenges |-> s.challenges, credStore |-> s.credStore]

\* a response after the handler has deleted the challenge
RejectAndDelete(s, challengeKey, msg) ==
    [result |-> msg, challengeKey |-> NoKey, token |-> NoToken,
     challenges |-> MapDelete(s.challenges, challengeKey),
     credStore |-> s.credStore]

\* a variant of RegisterBeginHandler that does not look for existing
\* credentials
RegisterBeginHandlerAnyUser(s, email, name, random) ==
    IF email = <<>> \/ name = ""
    THEN Reject(s, "Email and name are required")
    ELSE IF ~EmailRegexTest(email)
    THEN Reject(s, "Invalid email format")
    ELSE LET challengeKey == RegKey(email, s.now)
         IN  [result |-> "ok", challengeKey |-> challengeKey, token |-> NoToken,
              challenges |-> MapSet(s.challenges, challengeKey,
                  [challenge |-> random, email |-> email, name |-> name,
                   expires |-> s.now + ChallengeTTL]),
              credStore |-> s.credStore]

\* router.post('/register/begin'); random is crypto.randomBytes(32)
RegisterBeginHandler(s, email, name, random) ==
    IF email = <<>> \/ name = ""
    THEN Reject(s, "Email and name are required")
    ELSE IF ~EmailRegexTest(email)
    THEN Reject(s, "Invalid email format")
    ELSE IF email \in DOMAIN s.credStore
    THEN Reject(s, "User already has biometric credentials registered")
    ELSE LET challengeKey == RegKey(email, s.now)
         IN  [result |-> "ok", challengeKey |-> challengeKey, token |-> NoToken,
              challenges |-> MapSet(s.challenges, challengeKey,
                  [challenge |-> random, email |-> email, name |-> name,
                   expires |-> s.now + ChallengeTTL]),
              credStore |-> s.credStore]

\* router.post('/register/complete')
RegisterCompleteHandler(s, credential, challengeKey) ==
    IF ~credential.present \/ challengeKey = NoKey
    THEN Reject(s, "Credential and challenge key are required")
    ELSE IF challengeKey \notin DOMAIN s.challenges
    THEN Reject(s, "Invalid or expired challenge")
    ELSE LET challengeData == s.challenges[challengeKey]
             verification == VerifyRegistrationCredential(credential,
                                                         challengeData.challenge)
         IN  IF IsExpired(s.now, challengeData)
             THEN RejectAndDelete(s, challengeKey, "Challenge expired")
             ELSE IF ~verification.verified
             THEN RejectAndDelete(s, challengeKey, verification.error)
             ELSE [result |-> "ok", challengeKey |-> NoKey, token |-> NoToken,
                   challenges |-> MapDelete(s.challenges, challengeKey),
                   credStore |-> MapSet(s.credStore, challengeData.email,
                       CredentialData(verification, challengeData, s.now))]

\* a variant of LoginBeginHandler that does not look for stored credentials
LoginBeginHandlerAnyUser(s, email, random) ==
    IF email = <<>>
    THEN Reject(s, "Email is required")
    ELSE IF ~EmailRegexTest(email)
    THEN Reject(s, "Invalid email format")
    ELSE LET challengeKey == AuthKey(email, s.now)
         IN  [result |-> "ok", challengeKey |-> challengeKey, token |-> NoToken,
              challenges |-> MapSet(s.challenges, challengeKey,
                  [challenge |-> random, email |-> email, name |-> Undefined,
                   expires |-> s.now + ChallengeTTL]),
              credStore |-> s.credStore]

\* router.post('/login/begin'); random is crypto.randomBytes(32)
LoginBeginHandler(s, email, random) ==
    IF email = <<>>
    THEN Reject(s, "Email is required")
    ELSE IF ~EmailRegexTest(email)
    THEN Reject(s, "Invalid email format")
    ELSE IF email \notin DOMAIN s.credStore
    THEN Reject(s, "No biometric credentials found for this user")
    ELSE LET challengeKey == AuthKey(email, s.now)
         IN  [result |-> "ok", challengeKey |-> challengeKey, token |-> NoToken,
              challenges |-> MapSet(s.challenges, challengeKey,
                  [challenge |-> random, email |-> email, name |-> Undefined,
                   expires |-> s.now + ChallengeTTL]),
              credStore |-> s.credStore]

\* router.post('/login/complete')
LoginCompleteHandler(s, credential, challengeKey) ==
    IF ~credential.present \/ challengeKey = NoKey
    THEN Reject(s, "Credential and challenge key are required")
    ELSE IF challengeKey \notin DOMAIN s.challenges
    THEN Reject(s, "Invalid or expired challenge")
    ELSE LET challengeData == s.challenges[challengeKey] IN
         IF IsExpired(s.now, challengeData)
         THEN RejectAndDelete(s, challengeKey, "Challenge expired")
         ELSE IF challengeData.email \notin DOMAIN s.credStore
         THEN RejectAndDelete(s, challengeKey, "Stored credential not found")
         ELSE LET storedCredential == s.credStore[challengeData.email]
                  verification == VerifyAuthenticationCredential(credential,
                                      challengeData.challenge, storedCredential)
                  updated == MapSet(s.credStore, challengeData.email,
                                 [storedCredential EXCEPT
                                    !.counter = verification.counter])
              IN  IF ~verification.verified
                  THEN RejectAndDelete(s, challengeKey, verification.error)
                  ELSE IF ~s.jwtSecret
                  THEN \* jwt.sign throws "secretOrPrivateKey must have a
                       \* value" after the counter was stored; the catch
                       \* answers 500 and the challenge is not deleted
                       [result |-> "Failed to complete authentication",
                        challengeKey |-> NoKey, token |-> NoToken,
                        challenges |-> s.challenges, credStore |-> updated]
                  ELSE [result |-> "ok", challengeKey |-> NoKey,
                        token |-> JwtSign(challengeData.email,
                                          storedCredential.name, s.now),
                        challenges |-> MapDelete(s.challenges, challengeKey),
                        credStore |-> updated]

\* a variant of VerifyToken that never looks at the expiry
VerifyTokenIgnoreExpiration(s, bearer) ==
    IF ~bearer.present
    THEN [result |-> "Access token required", user |-> NoToken]
    ELSE IF ~s.jwtSecret \/ ~bearer.wellFormed \/ ~bearer.validSignature
    THEN [result |-> "Invalid or expired token", user |-> NoToken]
    ELSE [result |-> "ok", user |-> bearer.payload]

\* the verifyToken middleware.  jwt.verify(token, secret) throws without a
\* secret, on a token that is not a JWT, on a signature that is not the
\* secret's signature of the payload, and when the clock, in whole seconds,
\* has reached the payload's exp; otherwise it returns the payload.
VerifyToken(s, bearer) ==
    IF ~bearer.present
    THEN [result |-> "Access token required", user |-> NoToken]
    ELSE IF ~s.jwtSecret \/ ~bearer.wellFormed \/ ~bearer.validSignature
    THEN [result |-> "Invalid or expired token", user |-> NoToken]
    ELSE IF s.now \div 1000 >= bearer.payload.exp
    THEN [result |-> "Invalid or expired token", user |-> NoToken]
    ELSE [result |-> "ok", user |-> bearer.payload]

\* a variant of LogoutHandler that drops the pending challenges of the user
LogoutHandlerDropsChallenges(s, bearer) ==
    LET verified == VerifyToken(s, bearer)
    IN  IF verified.result # "ok"
        THEN Reject(s, verified.result)
        ELSE [result |-> "ok", challengeKey |-> NoKey, token |-> NoToken,
              challenges |->
                  [k \in { x \in DOMAIN s.challenges :
                             s.challenges[x].email # verified.user.email }
                     |-> s.challenges[k]],
              credStore |-> s.credStore]

\* router.post('/logout', verifyToken, ...)
LogoutHandler(s, bearer) ==
    LET verified == VerifyToken(s, bearer)
    IN  IF verified.result # "ok"
        THEN Reject(s, verified.result)
        ELSE [result |-> "ok", challengeKey |-> NoKey, token |-> NoToken,
              challenges |-> s.challenges, credStore |-> s.credStore]

\* a variant of SweepResult that also deletes a challenge at now = expires
SweepResultEager(s) ==
    [k \in { x \in DOMAIN s.challenges : s.now < s.challenges[x].expires }
       |-> s.challenges[k]]

\* a variant of SweepResult that deletes nothing
SweepResultNone(s) == s.challenges

\* cleanupExpiredChallenges: the challenges it leaves
SweepResult(s) ==
    [k \in { x \in DOMAIN s.challenges : ~IsExpired(s.now, s.challenges[x]) }
       |-> s.challenges[k]]

\* a variant of RestartResult in which the credential files are lost too
RestartResultLosesStore(s) ==
    [challenges |-> [k \in {} |-> 0], credStore |-> [e \in {} |-> 0]]

\* the process stops and starts again: challenges = new Map() is empty, and
\* new LocalStorage('./webauthn-storage') reads the files that the setItem
\* calls of the previous process wrote
RestartResult(s) ==
    [challenges |-> [k \in {} |-> 0], credStore |-> s.credStore]

\* the server state after a response
After(s, out) ==
    [s EXCEPT !.challenges = out.challenges, !.credStore = out.credStore]

\* the counters of a credential store stay within the model's bound
CountersBounded(store) == \A e \in DOMAIN store : store[e].counter <= MaxCounter

RegisterBegin(email, name, random) ==
    LET out == RegisterBeginHandler(Server, email, name, random)
    IN  /\ Cardinality(DOMAIN out.challenges) <= MaxPending
        /\ challenges' = out.challenges
        /\ credStore' = out.credStore
        /\ UNCHANGED <<now, jwtSecret>>
        /\ UNCHANGED registryVars

RegisterComplete(credential, challengeKey) ==
    LET out == RegisterCompleteHandler(Server, credential, challengeKey)
    IN  /\ challenges' = out.challenges
        /\ credStore' = out.credStore
        /\ UNCHANGED <<now, jwtSecret>>
        /\ UNCHANGED registryVars

LoginBegin(email, random) ==
    LET out == LoginBeginHandler(Server, email, random)
    IN  /\ Cardinality(DOMAIN out.challenges) <= MaxPending
        /\ challenges' = out.challenges
        /\ credStore' = out.credStore
        /\ UNCHANGED <<now, jwtSecret>>
        /\ UNCHANGED registryVars

LoginComplete(credential, challengeKey) ==
    LET out == LoginCompleteHandler(Server, credential, challengeKey)
    IN  /\ CountersBounded(out.credStore)
        /\ challenges' = out.challenges
        /\ credStore' = out.credStore
        /\ UNCHANGED <<now, jwtSecret>>
        /\ UNCHANGED registryVars

\* the bearer tokens of a request: none, one that is not a JWT, and the
\* payloads the server signs, under its signature or another
BearerInputs ==
    {NoBearer, MalformedBearer}
    \cup { Bearer(JwtSign(e, n, t), v) :
             e \in Emails, n \in Names, t \in Times, v \in BOOLEAN }

Logout(bearer) ==
    LET out == LogoutHandler(Server, bearer)
    IN  /\ challenges' = out.challenges
        /\ credStore' = out.credStore
        /\ UNCHANGED <<now, jwtSecret>>
        /\ UNCHANGED registryVars

\* cleanupExpiredChallenges, run by setInterval every SweepInterval
CleanupExpiredChallenges ==
    /\ now >= SweepInterval
    /\ challenges' = SweepResult(Server)
    /\ UNCHANGED <<now, credStore, jwtSecret>>
    /\ UNCHANGED registryVars

\* the process crashes or is restarted between two requests
Restart ==
    LET out == RestartResult(Server)
    IN  /\ challenges' = out.challenges
        /\ credStore' = out.credStore
        /\ UNCHANGED <<now, jwtSecret>>
        /\ UNCHANGED registryVars

\* the clock moves on; the readings a behaviour sees are ChallengeTTL apart,
\* so that a challenge meets now = expires and then now > expires
Tick ==
    /\ now \div ChallengeTTL < MaxLongSteps
    /\ now' = now + ChallengeTTL
    /\ UNCHANGED <<challenges, credStore, jwtSecret>>
    /\ UNCHANGED registryVars

CeremonyInit ==
    /\ now = 0
    /\ challenges = [k \in {} |-> 0]
    /\ credStore = [e \in {} |-> 0]
    /\ jwtSecret \in BOOLEAN

-----------------------------------------------------------------------------
(* The IdentityManager contract *)

ZeroAddress == "0x0"
Addresses == {"0xA", "0xB", "0xC"}
AddressInputs == Addresses \cup {ZeroAddress}
RegistryNames == {"John", ""}
RegistryEmails == {"a@x.com", "b@x.com", ""}
AadhaarHashes == {"H1", "H2", "H3", ""}

\* the value of identities[a] for an address never written
EmptyIdentity ==
    [name |-> "", email |-> "", hashedAadhaar |-> "", ethAddress |-> ZeroAddress,
     registrationTime |-> 0, isActive |-> FALSE]

\* a variant of NewIdentity that loses the hashed Aadhaar
NewIdentityNoAadhaar(sender, name, email, hashedAadhaar, timestamp) ==
    [name |-> name, email |-> email, hashedAadhaar |-> "",
     ethAddress |-> sender, registrationTime |-> timestamp, isActive |-> TRUE]

\* Identity({name: _name, ..., isActive: true})
NewIdentity(sender, name, email, hashedAadhaar, timestamp) ==
    [name |-> name, email |-> email, hashedAadhaar |-> hashedAadhaar,
     ethAddress |-> sender, registrationTime |-> timestamp, isActive |-> TRUE]

\* a variant of RegisterRevert that looks at the email before the caller
RegisterRevertEmailFirst(sender, name, email, hashedAadhaar) ==
    IF name = "" THEN "Name cannot be empty"
    ELSE IF email = "" THEN "Email cannot be empty"
    ELSE IF hashedAadhaar = "" THEN "Hashed Aadhaar cannot be empty"
    ELSE IF email \in emailExists THEN "Email already registered"
    ELSE IF identities[sender].isActive THEN "Identity already registered"
    ELSE IF hashedAadhaar \in aadhaarExists THEN "Aadhaar already registered"
    ELSE ""

\* a variant of RegisterRevert without require(!emailExists[_email])
RegisterRevertAnyEmail(sender, name, email, hashedAadhaar) ==
    IF name = "" THEN "Name cannot be empty"
    ELSE IF email = "" THEN "Email cannot be empty"
    ELSE IF hashedAadhaar = "" THEN "Hashed Aadhaar cannot be empty"
    ELSE IF identities[sender].isActive THEN "Identity already registered"
    ELSE IF hashedAadhaar \in aadhaarExists THEN "Aadhaar already registered"
    ELSE ""

\* a variant of RegisterRevert without require(!identities[msg.sender].isActive)
RegisterRevertAnyCaller(sender, name, email, hashedAadhaar) ==
    IF name = "" THEN "Name cannot be empty"
    ELSE IF email = "" THEN "Email cannot be empty"
    ELSE IF hashedAadhaar = "" THEN "Hashed Aadhaar cannot be empty"
    ELSE IF email \in emailExists THEN "Email already registered"
    ELSE IF hashedAadhaar \in aadhaarExists THEN "Aadhaar already registered"
    ELSE ""

\* a variant of RegisterRevert without require(!aadhaarExists[_hashedAadhaar])
RegisterRevertAnyAadhaar(sender, name, email, hashedAadhaar) ==
    IF name = "" THEN "Name cannot be empty"
    ELSE IF email = "" THEN "Email cannot be empty"
    ELSE IF hashedAadhaar = "" THEN "Hashed Aadhaar cannot be empty"
    ELSE IF identities[sender].isActive THEN "Identity already registered"
    ELSE IF email \in emailExists THEN "Email already registered"
    ELSE ""

\* a variant of RegisterRevert without require(bytes(_name).length > 0)
RegisterRevertAnyName(sender, name, email, hashedAadhaar) ==
    IF email = "" THEN "Email cannot be empty"
    ELSE IF hashedAadhaar = "" THEN "Hashed Aadhaar cannot be empty"
    ELSE IF identities[sender].isActive THEN "Identity already registered"
    ELSE IF email \in emailExists THEN "Email already registered"
    ELSE IF hashedAadhaar \in aadhaarExists THEN "Aadhaar already registered"
    ELSE ""

\* the require chain of registerIdentity: the revert reason, "" when none
RegisterRevert(sender, name, email, hashedAadhaar) ==
    IF name = "" THEN "Name cannot be empty"
    ELSE IF email = "" THEN "Email cannot be empty"
    ELSE IF hashedAadhaar = "" THEN "Hashed Aadhaar cannot be empty"
    ELSE IF identities[sender].isActive THEN "Identity already registered"
    ELSE IF email \in emailExists THEN "Email already registered"
    ELSE IF hashedAadhaar \in aadhaarExists THEN "Aadhaar already registered"
    ELSE ""

\* the contract storage
Storage ==
    [identities |-> identities, emailExists |-> emailExists,
     aadhaarExists |-> aadhaarExists, registeredUsers |-> registeredUsers,
     events |-> events]

\* a variant of RegisterIdentityResult without emailExists[_email] = true
RegisterIdentityResultEmailFree(sender, name, email, hashedAadhaar) ==
    LET revert == RegisterRevert(sender, name, email, hashedAadhaar)
    IN  IF revert # ""
        THEN [revert |-> revert, storage |-> Storage]
        ELSE [revert |-> "",
              storage |->
                [identities |-> [identities EXCEPT ![sender] =
                     NewIdentity(sender, name, email, hashedAadhaar, blockTime)],
                 emailExists |-> emailExists,
                 aadhaarExists |-> aadhaarExists \cup {hashedAadhaar},
                 registeredUsers |-> Append(registeredUsers, sender),
                 events |-> Append(events,
                     [userAddress |-> sender, name |-> name, email |-> email,
                      timestamp |-> blockTime])]]

\* a variant of RegisterIdentityResult without emit IdentityRegistered
RegisterIdentityResultNoEvent(sender, name, email, hashedAadhaar) ==
    LET revert == RegisterRevert(sender, name, email, hashedAadhaar)
    IN  IF revert # ""
        THEN [revert |-> revert, storage |-> Storage]
        ELSE [revert |-> "",
              storage |->
                [identities |-> [identities EXCEPT ![sender] =
                     NewIdentity(sender, name, email, hashedAadhaar, blockTime)],
                 emailExists |-> emailExists \cup {email},
                 aadhaarExists |-> aadhaarExists \cup {hashedAadhaar},
                 registeredUsers |-> Append(registeredUsers, sender),
                 events |-> events]]

\* a variant of RegisterIdentityResult in which a reverted call keeps its
\* marks of the email and the hashed Aadhaar
RegisterIdentityResultMarksOnRevert(sender, name, email, hashedAadhaar) ==
    LET revert == RegisterRevert(sender, name, email, hashedAadhaar)
    IN  [revert |-> revert,
         storage |->
           [identities |->
              IF revert # "" THEN identities
              ELSE [identities EXCEPT ![sender] =
                     NewIdentity(sender, name, email, hashedAadhaar, blockTime)],
            emailExists |-> emailExists \cup {email},
            aadhaarExists |-> aadhaarExists \cup {hashedAadhaar},
            registeredUsers |->
              IF revert # "" THEN registeredUsers
              ELSE Append(registeredUsers, sender),
            events |->
              IF revert # "" THEN events
              ELSE Append(events,
                     [userAddress |-> sender, name |-> name, email |-> email,
                      timestamp |-> blockTime])]]

\* a variant of RegisterIdentityResult without registeredUsers.push
RegisterIdentityResultNoPush(sender, name, email, hashedAadhaar) ==
    LET revert == RegisterRevert(sender, name, email, hashedAadhaar)
    IN  IF revert # ""
        THEN [revert |-> revert, storage |-> Storage]
        ELSE [revert |-> "",
              storage |->
                [identities |-> [identities EXCEPT ![sender] =
                     NewIdentity(sender, name, email, hashedAadhaar, blockTime)],
                 emailExists |-> emailExists \cup {email},
                 aadhaarExists |-> aadhaarExists \cup {hashedAadhaar},
                 registeredUsers |-> registeredUsers,
                 events |-> Append(events,
                     [userAddress |-> sender, name |-> name, email |-> email,
                      timestamp |-> blockTime])]]

\* a variant of RegisterIdentityResult that puts msg.sender at the front of
\* registeredUsers
RegisterIdentityResultPrepend(sender, name, email, hashedAadhaar) ==
    LET revert == RegisterRevert(sender, name, email, hashedAadhaar)
    IN  IF revert # ""
        THEN [revert |-> revert, storage |-> Storage]
        ELSE [revert |-> "",
              storage |->
                [identities |-> [identities EXCEPT ![sender] =
                     NewIdentity(sender, name, email, hashedAadhaar, blockTime)],
                 emailExists |-> emailExists \cup {email},
                 aadhaarExists |-> aadhaarExists \cup {hashedAadhaar},
                 registeredUsers |-> <<sender>> \o registeredUsers,
                 events |-> Append(events,
                     [userAddress |-> sender, name |-> name, email |-> email,
                      timestamp |-> blockTime])]]

\* registerIdentity(_name, _email, _hashedAadhaar), msg.sender = sender: the
\* revert reason ("" when the transaction succeeds) and the storage the
\* transaction leaves; a reverted transaction leaves the storage as it was
RegisterIdentityResult(sender, name, email, hashedAadhaar) ==
    LET revert == RegisterRevert(sender, name, email, hashedAadhaar)
    IN  IF revert # ""
        THEN [revert |-> revert, storage |-> Storage]
        ELSE [revert |-> "",
              storage |->
                [identities |-> [identities EXCEPT ![sender] =
                     NewIdentity(sender, name, email, hashedAadhaar, blockTime)],
                 emailExists |-> emailExists \cup {email},
                 aadhaarExists |-> aadhaarExists \cup {hashedAadhaar},
                 registeredUsers |-> Append(registeredUsers, sender),
                 events |-> Append(events,
                     [userAddress |-> sender, name |-> name, email |-> email,
                      timestamp |-> blockTime])]]

\* registerIdentity(_name, _email, _hashedAadhaar), msg.sender = sender
RegisterIdentity(sender, name, email, hashedAadhaar) ==
    LET out == RegisterIdentityResult(sender, name, email, hashedAadhaar)
    IN  /\ identities' = out.storage.identities
        /\ emailExists' = out.storage.emailExists
        /\ aadhaarExists' = out.storage.aadhaarExists
        /\ registeredUsers' = out.storage.registeredUsers
        /\ events' = out.storage.events
        /\ UNCHANGED blockTime
        /\ UNCHANGED ceremonyVars

\* a variant of GetIdentity without require(identities[_userAddress].isActive)
GetIdentityUnchecked(userAddress) ==
    IF userAddress = ZeroAddress
    THEN [revert |-> "Invalid address", value |-> EmptyIdentity]
    ELSE [revert |-> "", value |-> identities[userAddress]]

\* getIdentity(_userAddress): the revert reason and the returned tuple
GetIdentity(userAddress) ==
    IF userAddress = ZeroAddress
    THEN [revert |-> "Invalid address", value |-> EmptyIdentity]
    ELSE IF ~identities[userAddress].isActive
    THEN [revert |-> "Identity not found or inactive", value |-> EmptyIdentity]
    ELSE [revert |-> "", value |-> identities[userAddress]]

\* a variant of IsRegistered that tests the registration time
IsRegisteredByTime(userAddress) ==
    IF userAddress = ZeroAddress
    THEN [revert |-> "Invalid address", value |-> FALSE]
    ELSE [revert |-> "", value |-> identities[userAddress].registrationTime > 0]

\* isRegistered(_userAddress): the revert reason and the returned bool
IsRegistered(userAddress) ==
    IF userAddress = ZeroAddress
    THEN [revert |-> "Invalid address", value |-> FALSE]
    ELSE [revert |-> "", value |-> identities[userAddress].isActive]

\* isEmailRegistered(_email)
IsEmailRegistered(email) == email \in emailExists

\* the active addresses of registeredUsers, in order
RECURSIVE ActiveOf(_)
ActiveOf(users) ==
    IF users = <<>> THEN <<>>
    ELSE IF identities[Head(users)].isActive
         THEN <<Head(users)>> \o ActiveOf(Tail(users))
         ELSE ActiveOf(Tail(users))

\* getTotalUsers()
GetTotalUsers == Len(ActiveOf(registeredUsers))

\* getAllUsers()
GetAllUsers == ActiveOf(registeredUsers)

\* a later block: block.timestamp moves on
MineBlock ==
    /\ blockTime < MaxBlockTime
    /\ blockTime' = blockTime + 1
    /\ UNCHANGED <<identities, emailExists, aadhaarExists, registeredUsers,
                   events>>
    /\ UNCHANGED ceremonyVars

RegistryInit ==
    /\ identities = [a \in AddressInputs |-> EmptyIdentity]
    /\ emailExists = {}
    /\ aadhaarExists = {}
    /\ registeredUsers = <<>>
    /\ events = <<>>
    /\ blockTime = 0

RegistryNext ==
    \/ \E sender \in Addresses, name \in RegistryNames,
          email \in RegistryEmails, hashedAadhaar \in AadhaarHashes :
          RegisterIdentity(sender, name, email, hashedAadhaar)
    \/ MineBlock

-----------------------------------------------------------------------------
(* Specifications *)

Init == CeremonyInit /\ RegistryInit

Next ==
    \/ \E email \in EmailInputs, name \in NameInputs, random \in ChallengeBytes :
          RegisterBegin(email, name, random)
    \/ \E credential \in Credentials, challengeKey \in KeyInputs :
          RegisterComplete(credential, challengeKey)
    \/ \E email \in EmailInputs, random \in ChallengeBytes :
          LoginBegin(email, random)
    \/ \E credential \in Credentials, challengeKey \in KeyInputs :
          LoginComplete(credential, challengeKey)
    \/ \E bearer \in BearerInputs : Logout(bearer)
    \/ CleanupExpiredChallenges
    \/ Restart
    \/ Tick

Spec == Init /\ [][Next]_vars

RegistrySpec == Init /\ [][RegistryNext]_vars

\* The routes under a clock that keeps advancing and a sweep that keeps
\* running.  Begin requests arrive up to the reading MaxLongSteps * ChallengeTTL
\* and the clock runs two lifetimes further, to a reading at which every
\* challenge issued has now > expires.
LiveRegisterBegin(email, name, random) ==
    /\ now \div ChallengeTTL <= MaxLongSteps
    /\ RegisterBegin(email, name, random)

LiveLoginBegin(email, random) ==
    /\ now \div ChallengeTTL <= MaxLongSteps
    /\ LoginBegin(email, random)

LiveTick ==
    /\ now \div ChallengeTTL < MaxLongSteps + 2
    /\ now' = now + ChallengeTTL
    /\ UNCHANGED <<challenges, credStore, jwtSecret>>
    /\ UNCHANGED registryVars

LiveNext ==
    \/ \E email \in EmailInputs, name \in NameInputs, random \in ChallengeBytes :
          LiveRegisterBegin(email, name, random)
    \/ \E credential \in Credentials, challengeKey \in KeyInputs :
          RegisterComplete(credential, challengeKey)
    \/ \E email \in EmailInputs, random \in ChallengeBytes :
          LiveLoginBegin(email, random)
    \/ \E credential \in Credentials, challengeKey \in KeyInputs :
          LoginComplete(credential, challengeKey)
    \/ \E bearer \in BearerInputs : Logout(bearer)
    \/ CleanupExpiredChallenges
    \/ Restart
    \/ LiveTick

\* Date.now() keeps advancing, and setInterval keeps calling
\* cleanupExpiredChallenges while an expired challenge is pending
LiveSpec ==
    /\ Init
    /\ [][LiveNext]_vars
    /\ WF_vars(LiveTick)
    /\ WF_vars(CleanupExpiredChallenges)

-----------------------------------------------------------------------------
(* Properties of the ceremony routes.  They speak of the response a handler
   gives and the state it leaves when it is called in a reachable state with
   any request body; every request body is enabled in every state. *)

\* the two Complete handlers
CompleteHandlers == {"register", "login"}
Complete(h, s, credential, challengeKey) ==
    IF h = "register" THEN RegisterCompleteHandler(s, credential, challengeKey)
    ELSE LoginCompleteHandler(s, credential, challengeKey)

\* a request body that carries a credential response
Sent == { c \in Credentials : c.present }
\* a credential response with the required fields
WellFormed == { c \in Sent : c.id # "" /\ c.hasResponse /\ c.jsonOk }

NotFound == "Invalid or expired challenge"

\* C1: a challenge is single-use.  Whenever a Complete call carrying a
\* credential response names a pending key, the key is no longer pending after
\* the call, whatever its outcome, and every later Complete with that key
\* answers "Invalid or expired challenge".
C1_SingleUse ==
    \A h \in CompleteHandlers, c \in Sent, k \in DOMAIN challenges :
        LET o == Complete(h, Server, c, k)
        IN  /\ k \notin DOMAIN o.challenges
            /\ \A h2 \in CompleteHandlers, c2 \in Sent :
                  Complete(h2, After(Server, o), c2, k).result = NotFound

\* C2: two registration ceremonies for one email do not both succeed: no
\* Registration Complete persists a credential record for an email that
\* already has one.
C2_OneRegistrationPerEmail ==
    \A c \in Sent, k \in DOMAIN challenges :
        (k.kind = "challenge"
         /\ RegisterCompleteHandler(Server, c, k).result = "ok")
            => challenges[k].email \notin DOMAIN credStore

\* C3: a Complete call, registration or authentication, that carries a
\* credential response and names a pending challenge whose expires is earlier
\* than the current time answers "Challenge expired" whatever the response
\* is; it deletes the challenge, leaves the credential store as it was and
\* issues no token.
C3_ExpiredAlwaysRejected ==
    \A h \in CompleteHandlers, c \in Sent, k \in DOMAIN challenges :
        now > challenges[k].expires =>
            LET o == Complete(h, Server, c, k)
            IN  /\ o.result = "Challenge expired"
                /\ o.challenges = MapDelete(challenges, k)
                /\ o.credStore = credStore
                /\ o.token = NoToken

\* C3 witness: an authentication challenge of a registered user is pending
\* past its expiry, and a response that matches it in credential id,
\* challenge and origin is answered "Challenge expired".
C3_Witness ==
    \E k \in DOMAIN challenges, c \in WellFormed :
        /\ k.kind = "auth_challenge"
        /\ now > challenges[k].expires
        /\ challenges[k].email \in DOMAIN credStore
        /\ c.id = credStore[challenges[k].email].credentialId
        /\ c.challenge = challenges[k].challenge
        /\ c.origin = ExpectedOrigin
        /\ LoginCompleteHandler(Server, c, k).result = "Challenge expired"
        /\ k \notin DOMAIN LoginCompleteHandler(Server, c, k).challenges

\* C4: a successful Authentication Complete sets the stored counter to the
\* stored counter plus 1, whatever counter the response asserts, and a failed
\* Authentication Complete leaves every stored counter as it was.
C4_CounterPlusOne ==
    \A c \in Credentials, k \in KeyInputs :
        LET o == LoginCompleteHandler(Server, c, k)
        IN  IF o.result = "ok"
            THEN LET e == challenges[k].email
                 IN  /\ o.credStore[e].counter = credStore[e].counter + 1
                     /\ \A c2 \in Credentials :
                           (\A f \in DOMAIN c \ {"signCount"} : c2[f] = c[f])
                           => LoginCompleteHandler(Server, c2, k).credStore
                                  = o.credStore
            ELSE /\ DOMAIN o.credStore = DOMAIN credStore
                 /\ \A e \in DOMAIN credStore :
                       o.credStore[e].counter = credStore[e].counter

\* C5: no ceremony operation lowers the signature counter stored for an
\* email.
C5_CounterNeverDecreases ==
    \A h \in CompleteHandlers, c \in Credentials, k \in KeyInputs :
        LET o == Complete(h, Server, c, k)
        IN  \A e \in DOMAIN credStore :
                /\ e \in DOMAIN o.credStore
                /\ o.credStore[e].counter >= credStore[e].counter

\* C6: a token is issued only by an Authentication Complete that consumes an
\* unexpired pending challenge of the token's email, with a response that
\* embeds the challenge's bytes and the configured origin and whose credential
\* id is the one stored for that email; a well-formed response with another
\* credential id, on an unexpired challenge of a registered email, answers
\* "Credential ID mismatch" without a token; no other route issues a token.
C6_TokenOnlyForMatchingCredential ==
    /\ \A c \in Credentials, k \in KeyInputs :
          LET o == LoginCompleteHandler(Server, c, k)
          IN  /\ RegisterCompleteHandler(Server, c, k).token = NoToken
              /\ o.token # NoToken =>
                    /\ k \in DOMAIN challenges
                    /\ k \notin DOMAIN o.challenges
                    /\ ~(now > challenges[k].expires)
                    /\ o.token.email = challenges[k].email
                    /\ c.challenge = challenges[k].challenge
                    /\ c.origin = ExpectedOrigin
                    /\ o.token.email \in DOMAIN credStore
                    /\ c.id = credStore[o.token.email].credentialId
              /\ ( /\ k \in DOMAIN challenges
                   /\ ~(now > challenges[k].expires)
                   /\ challenges[k].email \in DOMAIN credStore
                   /\ c \in Sent /\ c.id # "" /\ c.hasResponse
                   /\ c.id # credStore[challenges[k].email].credentialId )
                 => /\ o.result = "Credential ID mismatch"
                    /\ o.token = NoToken
    /\ \A email \in EmailInputs, random \in ChallengeBytes :
          /\ LoginBeginHandler(Server, email, random).token = NoToken
          /\ \A name \in NameInputs :
                RegisterBeginHandler(Server, email, name, random).token = NoToken

\* C6 witness: on one pending authentication challenge, the response with the
\* stored credential id is answered with a token for the challenge's email
\* and the same response under another credential id with "Credential ID
\* mismatch".
C6_Witness ==
    \E k \in DOMAIN challenges, c \in WellFormed, c2 \in WellFormed :
        /\ k.kind = "auth_challenge"
        /\ LoginCompleteHandler(Server, c, k).token # NoToken
        /\ LoginCompleteHandler(Server, c, k).token.email = challenges[k].email
        /\ c2 = [c EXCEPT !.id = "cred2"]
        /\ c2 # c
        /\ LoginCompleteHandler(Server, c2, k).result = "Credential ID mismatch"

\* C9: a rejected call of any of the four routes leaves the credential store
\* as it was, issues no token, creates no challenge and changes no pending
\* challenge other than the one its challengeKey names; and once a Complete
\* call has found its challengeKey, the challenge is deleted.
C9_RejectionsOnlyConsume ==
    /\ \A email \in EmailInputs, name \in NameInputs, random \in ChallengeBytes :
          /\ LET o == RegisterBeginHandler(Server, email, name, random)
             IN  o.result # "ok" =>
                    /\ o.credStore = credStore /\ o.challenges = challenges
                    /\ o.token = NoToken
          /\ LET o == LoginBeginHandler(Server, email, random)
             IN  o.result # "ok" =>
                    /\ o.credStore = credStore /\ o.challenges = challenges
                    /\ o.token = NoToken
    /\ \A h \in CompleteHandlers, c \in Credentials, k \in KeyInputs :
          LET o == Complete(h, Server, c, k)
          IN  /\ o.result # "ok" =>
                    /\ o.credStore = credStore
                    /\ o.token = NoToken
                    /\ o.challenges \in {challenges, MapDelete(challenges, k)}
              /\ (c \in Sent /\ k \in DOMAIN challenges)
                    => k \notin DOMAIN o.challenges

\* C10: a Registration Complete on an unexpired pending challenge, whose
\* well-formed response embeds the stored challenge and an origin other than
\* the configured one, answers "Origin mismatch", stores no credential and
\* consumes the challenge: a retry with the same challengeKey, whatever
\* response it carries, answers "Invalid or expired challenge".
C10_OriginMismatchConsumes ==
    \A c \in WellFormed, k \in DOMAIN challenges :
        ( /\ ~(now > challenges[k].expires)
          /\ c.challenge = challenges[k].challenge
          /\ c.origin # ExpectedOrigin )
        => LET o == RegisterCompleteHandler(Server, c, k)
           IN  /\ o.result = "Origin mismatch"
               /\ o.credStore = credStore
               /\ o.challenges = MapDelete(challenges, k)
               /\ \A c2 \in Sent :
                     LET o2 == RegisterCompleteHandler(After(Server, o), c2, k)
                     IN  /\ o2.result = NotFound
                         /\ o2.credStore = credStore

\* C10 witness: a registration challenge is pending and unexpired, no
\* credential is stored for its email, and a response that embeds its bytes
\* under a foreign origin is answered "Origin mismatch" while the corrected
\* response would have been stored.
C10_Witness ==
    \E k \in DOMAIN challenges, c \in WellFormed :
        /\ k.kind = "challenge"
        /\ ~(now > challenges[k].expires)
        /\ challenges[k].email \notin DOMAIN credStore
        /\ c.challenge = challenges[k].challenge
        /\ c.origin # ExpectedOrigin
        /\ RegisterCompleteHandler(Server, c, k).result = "Origin mismatch"
        /\ RegisterCompleteHandler(Server, [c EXCEPT !.origin = ExpectedOrigin],
                                   k).result = "ok"

\* C11: Authentication Begin for an email without a stored credential issues
\* no challenge: the pending challenges are the same after the call, and for
\* a well-formed email the answer is "No biometric credentials found for this
\* user".
C11_LoginBeginUnknownUser ==
    \A email \in EmailInputs, random \in ChallengeBytes :
        email \notin DOMAIN credStore =>
            LET o == LoginBeginHandler(Server, email, random)
            IN  /\ o.result # "ok"
                /\ o.challengeKey = NoKey
                /\ o.challenges = challenges
                /\ (email # <<>> /\ EmailRegexTest(email)) =>
                       o.result = "No biometric credentials found for this user"

\* C11 witness: a registration challenge for the email is pending, no
\* credential is stored, and Authentication Begin for that email is answered
\* "No biometric credentials found for this user".
C11_Witness ==
    /\ EmailA \notin DOMAIN credStore
    /\ \E k \in DOMAIN challenges : challenges[k].email = EmailA
    /\ LoginBeginHandler(Server, EmailA, "ch1").result
          = "No biometric credentials found for this user"
    /\ LoginBeginHandler(Server, EmailA, "ch1").challenges = challenges

\* C12: Registration Begin with a missing or malformed email or a missing
\* name answers "Email and name are required" or "Invalid email format", and
\* for an email that has a stored credential it answers "User already has
\* biometric credentials registered"; in both cases the pending challenges are
\* as before.  Otherwise it succeeds and one pending challenge, the one under
\* the key it returns, is new: it holds the given email and name, and every
\* other key is pending or not, with the same data, as before.
C12_RegisterBeginOutcomes ==
    \A email \in EmailInputs, name \in NameInputs, random \in ChallengeBytes :
        LET o == RegisterBeginHandler(Server, email, name, random)
        IN  /\ o.credStore = credStore
            /\ IF email = <<>> \/ name = "" \/ ~EmailRegexTest(email)
               THEN /\ o.result \in {"Email and name are required",
                                     "Invalid email format"}
                    /\ o.challenges = challenges
               ELSE IF email \in DOMAIN credStore
               THEN /\ o.result
                         = "User already has biometric credentials registered"
                    /\ o.challenges = challenges
               ELSE /\ o.result = "ok"
                    /\ o.challengeKey \in DOMAIN o.challenges
                    /\ o.challenges[o.challengeKey].email = email
                    /\ o.challenges[o.challengeKey].name = name
                    /\ DOMAIN o.challenges
                          = DOMAIN challenges \cup {o.challengeKey}
                    /\ \A k \in DOMAIN challenges \ {o.challengeKey} :
                          o.challenges[k] = challenges[k]

\* C12 witness: a credential is stored for the email while a registration
\* challenge that an earlier Registration Begin created for the same email
\* and name is pending, and Registration Begin for that email is answered
\* "User already has biometric credentials registered".
C12_Witness ==
    /\ EmailA \in DOMAIN credStore
    /\ \E k \in DOMAIN challenges :
          /\ k.kind = "challenge"
          /\ challenges[k].email = EmailA
          /\ challenges[k].name = "Alice"
    /\ RegisterBeginHandler(Server, EmailA, "Alice", "ch1").result
          = "User already has biometric credentials registered"

\* C13: a successful Registration Complete stores, under the email of the
\* challenge it consumed, a record with counter 0, the credential id of the
\* response, and the email and name of that challenge; the records of other
\* emails are as before.
C13_RegisterCompleteStores ==
    \A c \in Credentials, k \in KeyInputs :
        LET o == RegisterCompleteHandler(Server, c, k)
        IN  o.result = "ok" =>
              /\ k \in DOMAIN challenges
              /\ k \notin DOMAIN o.challenges
              /\ DOMAIN o.credStore
                    = DOMAIN credStore \cup {challenges[k].email}
              /\ o.credStore[challenges[k].email].counter = 0
              /\ o.credStore[challenges[k].email].credentialId = c.id
              /\ o.credStore[challenges[k].email].email = challenges[k].email
              /\ o.credStore[challenges[k].email].name = challenges[k].name
              /\ \A e \in DOMAIN credStore \ {challenges[k].email} :
                    o.credStore[e] = credStore[e]

\* C13 witness: a registration challenge of Alice is pending, no credential
\* is stored for its email, and a Registration Complete with a matching
\* response of credential cred2 succeeds and stores cred2 for Alice with
\* counter 0.
C13_Witness ==
    \E k \in DOMAIN challenges, c \in WellFormed :
        /\ k.kind = "challenge"
        /\ challenges[k].name = "Alice"
        /\ challenges[k].email \notin DOMAIN credStore
        /\ c.id = "cred2"
        /\ RegisterCompleteHandler(Server, c, k).result = "ok"
        /\ RegisterCompleteHandler(Server, c, k).credStore[challenges[k].email]
              = [credentialId |-> "cred2", publicKey |-> c.attestationObject,
                 counter |-> 0, email |-> challenges[k].email,
                 name |-> "Alice", registeredAt |-> now]

\* the server at the clock reading v, with the same stores
ClockAt(s, v) == [s EXCEPT !.now = v]

\* the tokens an Authentication Complete issues in this state
IssuedNow ==
    { LoginCompleteHandler(Server, c, k).token :
        c \in Credentials, k \in KeyInputs } \ {NoToken}

\* clock readings, in milliseconds, around the issuance and the expiry of a
\* token
VerifyTimes(payload) ==
    {payload.authenticatedAt, payload.authenticatedAt + 1000}
    \cup { payload.exp * 1000 + d : d \in {-1000, -1, 0, 1, 1000} }

\* a token that is not a validly signed JWT is rejected at every time
BadTokensRejected ==
    \A token \in IssuedNow : \A v \in VerifyTimes(token) :
        /\ VerifyToken(ClockAt(Server, v), Bearer(token, FALSE)).result
              = "Invalid or expired token"
        /\ VerifyToken(ClockAt(Server, v), MalformedBearer).result
              = "Invalid or expired token"

\* C14 as stated: a token issued at time t is accepted by verifyToken at
\* every time up to and including t + 24 hours and rejected at every time after
\* it, and a token with a bad signature or a malformed one is rejected at
\* every time.
C14_AcceptedUntilExpiry ==
    /\ \A token \in IssuedNow : \A v \in VerifyTimes(token) :
          VerifyToken(ClockAt(Server, v), Bearer(token, TRUE)).result = "ok"
              <=> v <= now + TokenLifetime * 1000
    /\ BadTokensRejected

\* C14 amended: a token issued at time t expires at exp = the whole second of
\* t plus 24 hours; verifyToken accepts it at every time whose whole second is
\* earlier than exp and rejects it at exp and at every time after it, and a
\* token with a bad signature or a malformed one is rejected at every time.
C14_AcceptedBeforeExpiry ==
    /\ \A token \in IssuedNow : \A v \in VerifyTimes(token) :
          /\ token.exp = now \div 1000 + TokenLifetime
          /\ VerifyToken(ClockAt(Server, v), Bearer(token, TRUE)).result = "ok"
                <=> v \div 1000 < token.exp
    /\ BadTokensRejected

\* C14 witness: an Authentication Complete issues a token that verifyToken
\* accepts one millisecond before its expiry and rejects at its expiry.
C14_Witness ==
    \E token \in IssuedNow :
        /\ VerifyToken(ClockAt(Server, token.exp * 1000 - 1),
                       Bearer(token, TRUE)).result = "ok"
        /\ VerifyToken(ClockAt(Server, token.exp * 1000),
                       Bearer(token, TRUE)).result = "Invalid or expired token"

\* C15: logout changes neither the credential store nor the pending
\* challenges, and a token with which logout succeeded is still accepted by
\* verifyToken, after the logout, at every later time before its expiry.
C15_LogoutIsAdvisory ==
    \A bearer \in BearerInputs :
        LET o == LogoutHandler(Server, bearer)
        IN  /\ o.challenges = challenges
            /\ o.credStore = credStore
            /\ o.token = NoToken
            /\ o.result = "ok" =>
                  \A v \in VerifyTimes(bearer.payload) \cup {now} :
                      (v >= now /\ v \div 1000 < bearer.payload.exp) =>
                          /\ VerifyToken(ClockAt(After(Server, o), v),
                                         bearer).result = "ok"
                          /\ VerifyToken(ClockAt(After(Server, o), v),
                                         bearer).user = bearer.payload

\* C15 witness: the user has authenticated (the stored counter is 1 and the
\* signing secret is set), a challenge of the user is pending, and logout with
\* a token issued to the user succeeds and the token is accepted one
\* millisecond before its expiry.
C15_Witness ==
    /\ jwtSecret
    /\ EmailA \in DOMAIN credStore
    /\ credStore[EmailA].counter = 1
    /\ \E k \in DOMAIN challenges : challenges[k].email = EmailA
    /\ \E t \in Times :
          LET bearer == Bearer(JwtSign(EmailA, credStore[EmailA].name, t), TRUE)
              o == LogoutHandler(Server, bearer)
          IN  /\ t <= now
              /\ o.result = "ok"
              /\ VerifyToken(ClockAt(After(Server, o),
                                     bearer.payload.exp * 1000 - 1),
                             bearer).result = "ok"

\* C16: when two Complete calls that carry a credential response name the
\* same pending challengeKey, then, in either order (a handler runs to
\* completion before the next starts), the first gets past the challenge
\* lookup and the second is answered "Invalid or expired challenge", stores
\* nothing, increments no counter and obtains no token.
C16_RaceOnOneKey ==
    \A h1 \in CompleteHandlers, h2 \in CompleteHandlers,
       c1 \in Sent, c2 \in Sent, k \in DOMAIN challenges :
        LET o1 == Complete(h1, Server, c1, k)
            o2 == Complete(h2, After(Server, o1), c2, k)
        IN  /\ o1.result # NotFound
            /\ o2.result = NotFound
            /\ o2.credStore = o1.credStore
            /\ o2.token = NoToken

\* C26: every run of cleanupExpiredChallenges, wherever it falls between the
\* calls of the routes, deletes exactly the pending challenges with
\* now > expires, leaves every other pending challenge and the credential
\* store as they were, and after it a Complete call of either route with a
\* deleted key fails with "Invalid or expired challenge".
C26_SweepRemovesExpiredOnly ==
    [][CleanupExpiredChallenges =>
         /\ DOMAIN challenges' =
               { k \in DOMAIN challenges : ~(now > challenges[k].expires) }
         /\ \A k \in DOMAIN challenges' : challenges'[k] = challenges[k]
         /\ credStore' = credStore
         /\ \A k \in DOMAIN challenges \ DOMAIN challenges' :
               \A h \in CompleteHandlers, c \in Sent :
                   Complete(h, Server, c, k)'.result = NotFound]_vars

\* C26 witness: the sweep is due while one pending challenge has expired and
\* another has not; the sweep leaves the second only.
C26_Witness ==
    /\ now >= SweepInterval
    /\ \E k1, k2 \in DOMAIN challenges :
          /\ now > challenges[k1].expires
          /\ ~(now > challenges[k2].expires)
          /\ DOMAIN SweepResult(Server) = {k2}

\* C27: under a clock that keeps advancing and a sweep that keeps running,
\* every pending challenge is eventually deleted from the challenges map, by
\* a Complete call or by the sweep after its expiry, also when no Complete
\* call ever names it.
C27_EveryChallengeDestroyed ==
    \A k \in Keys : (k \in DOMAIN challenges) ~> (k \notin DOMAIN challenges)

\* C27 witness: a challenge issued at the last reading at which Begin requests
\* arrive was never completed and is pending after its expiry, with the sweep
\* due.
C27_Witness ==
    \E k \in DOMAIN challenges :
        /\ k.t = MaxLongSteps * ChallengeTTL
        /\ now > challenges[k].expires
        /\ k \notin DOMAIN SweepResult(Server)

\* C28: every successful Begin call of either route returns a key that is
\* not pending when it is called and stores under it a challenge with
\* expires = now + ChallengeTTL, so that every challenge pending before the
\* call is pending after it with the same data, also when another Begin for
\* the same email was served at the same reading of Date.now().
C28_BeginKeyIsFresh ==
    /\ \A email \in EmailInputs, name \in NameInputs, random \in ChallengeBytes :
          LET o == RegisterBeginHandler(Server, email, name, random)
          IN  o.result = "ok" =>
                /\ o.challengeKey \notin DOMAIN challenges
                /\ o.challenges[o.challengeKey].expires = now + ChallengeTTL
                /\ \A k \in DOMAIN challenges :
                      /\ k \in DOMAIN o.challenges
                      /\ o.challenges[k] = challenges[k]
    /\ \A email \in EmailInputs, random \in ChallengeBytes :
          LET o == LoginBeginHandler(Server, email, random)
          IN  o.result = "ok" =>
                /\ o.challengeKey \notin DOMAIN challenges
                /\ o.challenges[o.challengeKey].expires = now + ChallengeTTL
                /\ \A k \in DOMAIN challenges :
                      /\ k \in DOMAIN o.challenges
                      /\ o.challenges[k] = challenges[k]

C30_TokenClaimsBiometric ==
    \A c \in Credentials, k \in KeyInputs :
        LET o == LoginCompleteHandler(Server, c, k)
        IN  o.result = "ok" =>
              /\ k \in DOMAIN challenges
              /\ o.token.email = challenges[k].email
              /\ o.token.name = credStore[challenges[k].email].name
              /\ o.token.authenticatedAt = now
              /\ o.token.iat = now \div 1000
              /\ o.token.authMethod = "biometric"

\* C30: the token of a successful login Complete carries the email of the
\* consumed challenge, the name of the stored credential, the time of
\* issuance (authenticatedAt in milliseconds, iat in seconds) and
\* authMethod = "webauthn".
C30_TokenClaims ==
    \A c \in Credentials, k \in KeyInputs :
        LET o == LoginCompleteHandler(Server, c, k)
        IN  o.result = "ok" =>
              /\ k \in DOMAIN challenges
              /\ o.token.email = challenges[k].email
              /\ o.token.name = credStore[challenges[k].email].name
              /\ o.token.authenticatedAt = now
              /\ o.token.iat = now \div 1000
              /\ o.token.authMethod = "webauthn"

\* C30 witness: at a clock reading after the start, a login Complete succeeds
\* and answers with a token for the email and name of the stored credential.
C30_Witness ==
    /\ now > 0
    /\ \E c \in WellFormed, k \in DOMAIN challenges :
          LET o == LoginCompleteHandler(Server, c, k)
          IN  /\ o.result = "ok"
              /\ o.token.email = EmailA
              /\ o.token.name = "Alice"
              /\ o.token.authenticatedAt = now

\* C32: the two ceremonies are independent.  /register/complete never
\* succeeds, and stores nothing, with a pending key that /login/begin issued,
\* and /login/complete never succeeds, and returns no token, with a pending
\* key that /register/begin issued.
C32_CeremoniesIndependent ==
    \A c \in Credentials, k \in DOMAIN challenges :
        /\ k.kind = "auth_challenge" =>
              LET o == RegisterCompleteHandler(Server, c, k)
              IN  /\ o.result # "ok"
                  /\ o.credStore = credStore
        /\ k.kind = "challenge" =>
              LET o == LoginCompleteHandler(Server, c, k)
              IN  /\ o.result # "ok"
                  /\ o.token = NoToken

\* C33: once a credential is stored for an email, no step of the routes, the
\* sweep or a restart removes it or changes its credentialId, publicKey, name
\* or registeredAt; only its counter changes.
C33_CredentialFieldsFixed ==
    [][\A e \in DOMAIN credStore :
          /\ e \in DOMAIN credStore'
          /\ credStore'[e].credentialId = credStore[e].credentialId
          /\ credStore'[e].publicKey = credStore[e].publicKey
          /\ credStore'[e].name = credStore[e].name
          /\ credStore'[e].email = credStore[e].email
          /\ credStore'[e].registeredAt = credStore[e].registeredAt]_vars

\* C34: in /login/complete the counter update, the token and the deletion of
\* the challenge come together.  Whenever a call changes the stored counter,
\* it answers with a token and the challenge it named is no longer pending,
\* also when jwt.sign fails for want of a secret; so a second call with the
\* same key changes no counter.
C34_CounterTokenDeleteTogether ==
    \A c \in Credentials, k \in DOMAIN challenges :
        LET o == LoginCompleteHandler(Server, c, k)
        IN  o.credStore # credStore =>
              /\ o.result = "ok"
              /\ o.token # NoToken
              /\ k \notin DOMAIN o.challenges
              /\ \A c2 \in Credentials :
                    LoginCompleteHandler(After(Server, o), c2, k).credStore
                       = o.credStore

\* C35: both Complete routes and the sweep judge expiry alike and strictly.
\* At a clock reading v, a pending challenge is answered "Challenge expired"
\* by a Complete call exactly when v > expires, and the sweep deletes it
\* exactly then: at v = expires a Complete call still processes it and the
\* sweep leaves it.
C35_ExpiryJudgedAlike ==
    \A k \in DOMAIN challenges :
        \A v \in {now, challenges[k].expires, challenges[k].expires + 1} :
            LET s == ClockAt(Server, v)
                expired == v > challenges[k].expires
            IN  /\ (k \notin DOMAIN SweepResult(s)) <=> expired
                /\ \A h \in CompleteHandlers, c \in Sent :
                      (Complete(h, s, c, k).result = "Challenge expired")
                         <=> expired

\* C35 witness: the clock reads exactly the expiry of a pending registration
\* challenge; the sweep leaves it and /register/complete with a matching
\* response succeeds.
C35_Witness ==
    \E k \in DOMAIN challenges :
        /\ now = challenges[k].expires
        /\ k \in DOMAIN SweepResult(Server)
        /\ \E c \in WellFormed :
              RegisterCompleteHandler(Server, c, k).result = "ok"

\* C36: every pending challenge that /login/begin issued names an email with
\* a stored credential, so that /login/complete with its key never answers
\* "Stored credential not found"; and no Complete call and no restart removes
\* a stored credential (no other operation writes the credential store).
C36_AuthChallengeHasCredential ==
    /\ \A k \in DOMAIN challenges :
          k.kind = "auth_challenge" =>
             /\ challenges[k].email \in DOMAIN credStore
             /\ \A c \in Sent :
                   LoginCompleteHandler(Server, c, k).result
                      # "Stored credential not found"
    /\ \A h \in CompleteHandlers, c \in Credentials, k \in DOMAIN challenges :
          DOMAIN credStore \subseteq DOMAIN Complete(h, Server, c, k).credStore
    /\ DOMAIN credStore \subseteq DOMAIN RestartResult(Server).credStore

\* C36 witness: after a restart and a second login, a challenge of
\* /login/begin is pending for an email whose stored credential has counted
\* a login, and /login/complete with its key and a matching response
\* succeeds.
C36_Witness ==
    \E k \in DOMAIN challenges :
        /\ k.kind = "auth_challenge"
        /\ challenges[k].email \in DOMAIN credStore
        /\ credStore[challenges[k].email].counter > 0
        /\ \E c \in WellFormed :
              LoginCompleteHandler(Server, c, k).result = "ok"

-----------------------------------------------------------------------------
(* Properties of the IdentityManager contract *)

\* the addresses with an active identity
ActiveAddresses == { a \in Addresses : identities[a].isActive }

\* C7: in every reachable state of the contract no two active identities
\* hold the same email or the same hashed Aadhaar, and no address is listed
\* twice among the registered users.
C7_UniqueEmailAadhaarAddress ==
    /\ \A a, b \in ActiveAddresses :
          a # b => /\ identities[a].email # identities[b].email
                   /\ identities[a].hashedAadhaar # identities[b].hashedAadhaar
    /\ \A i, j \in DOMAIN registeredUsers :
          registeredUsers[i] = registeredUsers[j] => i = j

\* C7 witness: two identities are active, and a third address that offers the
\* email of one of them with a fresh name is turned away.
C7_Witness ==
    /\ Cardinality(ActiveAddresses) = 2
    /\ \E s \in Addresses \ ActiveAddresses, a \in ActiveAddresses :
       \E h \in AadhaarHashes \ (aadhaarExists \cup {""}) :
          RegisterRevert(s, "John", identities[a].email, h)
              = "Email already registered"

\* C8: after a successful registerIdentity(name, email, hashedAadhaar) by an
\* address, getIdentity of that address returns that name, email, hashed
\* Aadhaar and address with isActive true, and isRegistered is true; and what
\* getIdentity and isRegistered return for an address with an active identity
\* is the same after every later step.
C8_GetReturnsRegistered ==
    [][ /\ \A s \in Addresses, n \in RegistryNames, e \in RegistryEmails,
             h \in AadhaarHashes :
             (RegisterRevert(s, n, e, h) = "" /\ RegisterIdentity(s, n, e, h))
             => /\ GetIdentity(s)' =
                     [revert |-> "",
                      value |-> [name |-> n, email |-> e, hashedAadhaar |-> h,
                                 ethAddress |-> s,
                                 registrationTime |-> blockTime,
                                 isActive |-> TRUE]]
                /\ IsRegistered(s)' = [revert |-> "", value |-> TRUE]
        /\ \A a \in Addresses :
             GetIdentity(a).revert = ""
             => /\ GetIdentity(a)' = GetIdentity(a)
                /\ IsRegistered(a)' = [revert |-> "", value |-> TRUE] ]_vars

\* C8 witness: an address registered first, another address registered after
\* it, and getIdentity of the first still returns what the first registration
\* logged.
C8_Witness ==
    /\ Len(registeredUsers) = 2
    /\ registeredUsers[1] # registeredUsers[2]
    /\ GetIdentity(registeredUsers[1]).revert = ""
    /\ GetIdentity(registeredUsers[1]).value.name = events[1].name
    /\ GetIdentity(registeredUsers[1]).value.email = events[1].email
    /\ GetIdentity(registeredUsers[1]).value.ethAddress = registeredUsers[1]
    /\ GetIdentity(registeredUsers[1]).value.hashedAadhaar # ""
    /\ IsRegistered(registeredUsers[1]).value

\* the non-empty arguments of registerIdentity
GivenNames == RegistryNames \ {""}
GivenEmails == RegistryEmails \ {""}
GivenHashes == AadhaarHashes \ {""}

\* C17: when an address holds an active identity with email E, a
\* registerIdentity by another address, which has no identity, with email E
\* and a hashed Aadhaar other than the first one's reverts with "Email already
\* registered", and the second address has no identity afterwards: the
\* storage is as before.
C17_EmailTaken ==
    \A s \in Addresses \ ActiveAddresses, a \in ActiveAddresses,
       n \in GivenNames, h \in GivenHashes :
        h # identities[a].hashedAadhaar =>
            LET o == RegisterIdentityResult(s, n, identities[a].email, h)
            IN  /\ o.revert = "Email already registered"
                /\ ~o.storage.identities[s].isActive
                /\ o.storage = Storage

\* C17 witness: one address has registered, and a second address that
\* offers the same email with a hashed Aadhaar nobody uses is turned away with
\* "Email already registered" and has no identity.
C17_Witness ==
    \E s \in Addresses \ ActiveAddresses, a \in ActiveAddresses,
       h \in GivenHashes \ aadhaarExists :
        /\ RegisterIdentityResult(s, "John", identities[a].email, h).revert
              = "Email already registered"
        /\ GetIdentity(s).revert = "Identity not found or inactive"

C20_EmptyFieldsRejected ==
    \A s \in Addresses, n \in RegistryNames, e \in RegistryEmails,
       h \in AadhaarHashes :
        (n = "" \/ e = "" \/ h = "") =>
            LET o == RegisterIdentityResult(s, n, e, h)
            IN  /\ o.revert \in {"Name cannot be empty", "Email cannot be empty",
                                 "Hashed Aadhaar cannot be empty"}
                /\ o.revert = "Name cannot be empty" => n = ""
                /\ o.revert = "Email cannot be empty" => e = ""
                /\ o.revert = "Hashed Aadhaar cannot be empty" => h = ""
                /\ o.storage = Storage

\* C20 witness: with one identity registered, a call from another address
\* with an unused email and hashed Aadhaar but an empty name is turned away
\* with "Name cannot be empty", and one from the registered address with only
\* the email empty with "Email cannot be empty".
C20_Witness ==
    \E s \in Addresses \ ActiveAddresses, a \in ActiveAddresses,
       e \in GivenEmails \ emailExists, h \in GivenHashes \ aadhaarExists :
        /\ RegisterIdentityResult(s, "", e, h).revert = "Name cannot be empty"
        /\ RegisterIdentityResult(a, "John", "", h).revert
              = "Email cannot be empty"
        /\ RegisterIdentityResult(s, "John", e, "").revert
              = "Hashed Aadhaar cannot be empty"

\* C21: a successful registerIdentity appends one IdentityRegistered event
\* with the caller's address and the name and email of the call, and a
\* reverted one appends none; in every reachable state the log has one event
\* per registered user, in the order of registration, with the address, name
\* and email of that user's identity.
C21_OneEventPerRegistration ==
    /\ Len(events) = Len(registeredUsers)
    /\ \A i \in DOMAIN events :
          /\ events[i].userAddress = registeredUsers[i]
          /\ events[i].name = identities[registeredUsers[i]].name
          /\ events[i].email = identities[registeredUsers[i]].email
          /\ events[i].timestamp
                = identities[registeredUsers[i]].registrationTime
    /\ \A s \in Addresses, n \in RegistryNames, e \in RegistryEmails,
          h \in AadhaarHashes :
          LET o == RegisterIdentityResult(s, n, e, h)
          IN  IF o.revert = ""
              THEN o.storage.events =
                     Append(events, [userAddress |-> s, name |-> n,
                                     email |-> e, timestamp |-> blockTime])
              ELSE o.storage.events = events

\* C21 witness: two addresses have registered, the log holds their two
\* events in that order, and a third call, with the email of the first, is
\* reverted and adds no event.
C21_Witness ==
    /\ Len(events) = 2
    /\ events[1].userAddress = registeredUsers[1]
    /\ events[2].userAddress = registeredUsers[2]
    /\ events[1].userAddress # events[2].userAddress
    /\ \E s \in Addresses \ ActiveAddresses, h \in GivenHashes \ aadhaarExists :
          LET o == RegisterIdentityResult(s, "John", events[1].email, h)
          IN  o.revert # "" /\ o.storage.events = events

\* C22 as stated: isRegistered never reverts: for every address, the zero
\* address included, it returns true exactly when the address has an active
\* identity.
C22_ExistsNeverFails ==
    \A a \in AddressInputs :
        /\ IsRegistered(a).revert = ""
        /\ IsRegistered(a).value = identities[a].isActive

\* C22 amended: for every address other than the zero address isRegistered
\* does not revert and returns true exactly when the address has an active
\* identity; for the zero address it reverts with "Invalid address".
C22_ExistsOfValidAddress ==
    /\ \A a \in Addresses :
          /\ IsRegistered(a).revert = ""
          /\ IsRegistered(a).value = identities[a].isActive
    /\ IsRegistered(ZeroAddress).revert = "Invalid address"

\* C22 witness: isRegistered is true for an address that has registered and
\* false for one that has not, and reverts for the zero address.
C22_Witness ==
    /\ \E a \in ActiveAddresses, b \in Addresses \ ActiveAddresses :
          /\ IsRegistered(a) = [revert |-> "", value |-> TRUE]
          /\ IsRegistered(b) = [revert |-> "", value |-> FALSE]
    /\ IsRegistered(ZeroAddress).revert = "Invalid address"

C24_EmptyRecordForUnknown ==
    \A a \in Addresses :
        (\A i \in DOMAIN registeredUsers : registeredUsers[i] # a) =>
            /\ GetIdentity(a).revert = ""
            /\ GetIdentity(a).value.name = ""
            /\ GetIdentity(a).value.email = ""
            /\ GetIdentity(a).value.hashedAadhaar = ""
            /\ GetIdentity(a).value.registrationTime = 0

\* C25: getAllUsers lists every address with an active identity exactly once,
\* in the order of the registrations (the order of the IdentityRegistered
\* events), and getTotalUsers equals the length of that list and the number
\* of successful registrations.
C25_ListAndCountAgree ==
    /\ {GetAllUsers[i] : i \in DOMAIN GetAllUsers} = ActiveAddresses
    /\ \A i, j \in DOMAIN GetAllUsers :
          GetAllUsers[i] = GetAllUsers[j] => i = j
    /\ Len(GetAllUsers) = Len(events)
    /\ \A i \in DOMAIN GetAllUsers : GetAllUsers[i] = events[i].userAddress
    /\ GetTotalUsers = Len(GetAllUsers)
    /\ GetTotalUsers = Len(events)

\* C25 witness: two addresses have registered, one after the other, and the
\* list has both in that order.
C25_Witness ==
    /\ Len(events) = 2
    /\ GetTotalUsers = 2
    /\ GetAllUsers = <<events[1].userAddress, events[2].userAddress>>
    /\ GetAllUsers[1] # GetAllUsers[2]

\* C31: a registration is irreversible and a registered identity is
\* immutable.  No step of the contract changes the name, email, hashed
\* Aadhaar, address or registration time of an active identity, or makes it
\* inactive.
C31_IdentityImmutable ==
    [][\A a \in AddressInputs :
          identities[a].isActive =>
              /\ identities'[a].isActive
              /\ identities'[a].name = identities[a].name
              /\ identities'[a].email = identities[a].email
              /\ identities'[a].hashedAadhaar = identities[a].hashedAadhaar
              /\ identities'[a].ethAddress = identities[a].ethAddress
              /\ identities'[a].registrationTime
                    = identities[a].registrationTime]_vars

\* C31 witness: an address registered in the first block; in a later block,
\* after another address has registered, its identity is the one it
\* registered, and a further call from it with a hashed Aadhaar that nobody
\* has used is rejected.
C31_Witness ==
    /\ Len(events) = 2
    /\ blockTime > events[1].timestamp
    /\ LET a == events[1].userAddress
       IN  /\ identities[a].isActive
           /\ identities[a].name = events[1].name
           /\ identities[a].email = events[1].email
           /\ identities[a].ethAddress = a
           /\ identities[a].registrationTime = events[1].timestamp
           /\ \E e \in RegistryEmails, h \in AadhaarHashes :
                 /\ e # ""
                 /\ h \notin aadhaarExists \cup {""}
                 /\ RegisterIdentityResult(a, "John", e, h).revert
                       = "Identity already registered"

\* C37: the uniqueness maps and the array agree with the identities.
\* isEmailRegistered(e) is true exactly when an identity holds the email e,
\* a hashed Aadhaar is marked used exactly when an identity holds it, and
\* registeredUsers holds exactly the addresses with an identity, each once.
C37_AuxiliaryStateAgrees ==
    /\ \A e \in RegistryEmails :
          IsEmailRegistered(e)
             <=> \E a \in ActiveAddresses : identities[a].email = e
    /\ emailExists = { identities[a].email : a \in ActiveAddresses }
    /\ aadhaarExists = { identities[a].hashedAadhaar : a \in ActiveAddresses }
    /\ { registeredUsers[i] : i \in DOMAIN registeredUsers } = ActiveAddresses
    /\ \A i, j \in DOMAIN registeredUsers :
          registeredUsers[i] = registeredUsers[j] => i = j

\* C37 witness: two addresses have registered and a third has not; two emails
\* and two hashed Aadhaars are marked, those of the two identities, and the
\* array holds the two addresses.
C37_Witness ==
    /\ Cardinality(ActiveAddresses) = 2
    /\ Cardinality(emailExists) = 2
    /\ Cardinality(aadhaarExists) = 2
    /\ Len(registeredUsers) = 2
    /\ \E h \in AadhaarHashes \ {""} : h \notin aadhaarExists
    /\ \A a \in ActiveAddresses : IsEmailRegistered(identities[a].email)

\* C38: a registerIdentity call that reverts, for whichever reason, leaves
\* the storage of the contract as it was: the identities, the marks of emails
\* and hashed Aadhaars, registeredUsers and the events are unchanged, so the
\* email and the hashed Aadhaar of the rejected call are as available to a
\* later call as before.
C38_FailedRegisterChangesNothing ==
    \A s \in Addresses, n \in RegistryNames, e \in RegistryEmails,
       h \in AadhaarHashes :
        LET out == RegisterIdentityResult(s, n, e, h)
        IN  out.revert # "" =>
              /\ out.storage.identities = identities
              /\ out.storage.emailExists = emailExists
              /\ out.storage.aadhaarExists = aadhaarExists
              /\ out.storage.registeredUsers = registeredUsers
              /\ out.storage.events = events

\* C38 witness: a registered address calls again with an email and a hashed
\* Aadhaar that nobody has used and is rejected; both are unmarked, and the
\* same call from an unregistered address succeeds.  Calls with an empty
\* field, a used email and a used hashed Aadhaar are rejected in the same
\* state.
C38_Witness ==
    \E a \in ActiveAddresses, b \in Addresses \ ActiveAddresses,
       e \in RegistryEmails \ {""}, h \in AadhaarHashes \ {""} :
        /\ RegisterIdentityResult(a, "John", e, h).revert
              = "Identity already registered"
        /\ ~IsEmailRegistered(e)
        /\ h \notin aadhaarExists
        /\ RegisterIdentityResult(b, "John", e, h).revert = ""
        /\ RegisterIdentityResult(b, "", e, h).revert = "Name cannot be empty"
        /\ RegisterIdentityResult(b, "John", identities[a].email, h).revert
              = "Email already registered"
        /\ RegisterIdentityResult(b, "John", e, identities[a].hashedAadhaar).revert
              = "Aadhaar already registered"

\* C39: registerIdentity reports the first failure in a fixed order: an
\* empty field, then a caller with an active identity, then a registered
\* email, then a registered hashed Aadhaar; it succeeds when none applies.
C39_FailureOrder ==
    \A s \in Addresses, n \in RegistryNames, e \in RegistryEmails,
       h \in AadhaarHashes :
        LET revert == RegisterIdentityResult(s, n, e, h).revert
        IN  IF n = "" \/ e = "" \/ h = ""
            THEN revert \in {"Name cannot be empty", "Email cannot be empty",
                             "Hashed Aadhaar cannot be empty"}
            ELSE IF s \in ActiveAddresses
            THEN revert = "Identity already registered"
            ELSE IF \E a \in ActiveAddresses : identities[a].email = e
            THEN revert = "Email already registered"
            ELSE IF \E a \in ActiveAddresses : identities[a].hashedAadhaar = h
            THEN revert = "Aadhaar already registered"
            ELSE revert = ""

\* C39 witness: a call from a registered address with an empty name is
\* answered "Name cannot be empty", a call from it with its own email is
\* answered "Identity already registered", and a call from an unregistered
\* address with a registered email and a registered hashed Aadhaar is
\* answered "Email already registered".
C39_Witness ==
    \E a \in ActiveAddresses, b \in Addresses \ ActiveAddresses :
        LET e == identities[a].email
            h == identities[a].hashedAadhaar
        IN  /\ RegisterIdentityResult(a, "", e, h).revert
                  = "Name cannot be empty"
            /\ RegisterIdentityResult(a, "John", e, h).revert
                  = "Identity already registered"
            /\ RegisterIdentityResult(b, "John", e, h).revert
                  = "Email already registered"

====
